---- MODULE Spec2Model ----
(***************************************************************************)
(* Model of the /chat endpoint of backend/server.js: the in-memory session *)
(* store chatHistories (a Map from session id to an array object), and the *)
(* async request handler, split at its suspension points: the await of     *)
(* sendMessageStream and each iteration of the for-await over the stream.  *)
(* Arrays are objects: a handler that finds its session in the Map works   *)
(* on the stored array itself, so the heap of arrays is modelled.          *)
(***************************************************************************)
EXTENDS Integers, Sequences, FiniteSets, TLC

\* ---- bounds --------------------------------------------------------------
\* "race" runs: concurrent handlers, short streams
MaxRequests == 3
MaxInFlight == 2
RaceChunks == 1
\* "stream" runs: one handler at a time, long streams of every fragment shape
StreamRequests == 1
MaxChunks == 2
\* "pair" runs: handlers of two sessions interleaved, short streams
PairRequests == 2

MaxOf(a, b) == IF a >= b THEN a ELSE b
Requests == 1..MaxOf(MaxRequests, MaxOf(StreamRequests, PairRequests))
\* one array object can be allocated per request (the `|| []` of line 128)
Refs == Requests
NoRef == 0

\* ---- JavaScript values ---------------------------------------------------
Undefined == [type |-> "undefined", val |-> ""]
Str(s) == [type |-> "string", val |-> s]

\* `!v` of line 124 is true for undefined and for the empty string
Falsy(v) == v.type = "undefined" \/ (v.type = "string" /\ v.val = "")

SessionKeys == {"s1", "s2"}
Modes == {"race", "stream", "pair"}
\* session ids the clients of a run use
SessionKeysOf(m) == IF m = "pair" THEN SessionKeys ELSE {"s1"}
\* request bodies with a missing field are drawn in "stream" runs only
MissingInputs(m) == IF m = "stream" THEN {Undefined} ELSE {}
SessionIdInputs(m) == MissingInputs(m) \cup {Str(s) : s \in SessionKeysOf(m)}
UserResponseInputs(m) == MissingInputs(m) \cup {Str(""), Str("hi")}

SyntheticOpening == "Start conversation with Tina."
RoleOrderPhrase == "First content should be with role 'user', got model"
GenericRetryMessage == "Failed to get a response from Tina. Please try again."
ResetMessage == "There was an internal chat history synchronization issue. Please refresh the page and try again."
ValidationMessage == "Missing sessionId or userResponse in request body."

\* String.prototype.includes
Includes(s, p) == \E i \in 1..(Len(s) - Len(p) + 1) : SubSeq(s, i, i + Len(p) - 1) = p

\* values a rejected promise or a throwing stream can carry: an Error with a
\* message, or a value without a message property
Thrown(m) == [hasMessage |-> TRUE, message |-> m]
ThrownBare == [hasMessage |-> FALSE, message |-> ""]
Failures == {Thrown("[GoogleGenerativeAI Error]: " \o RoleOrderPhrase),
             Thrown("fetch failed"),
             ThrownBare}
FailuresOf(m) == IF m = "stream" THEN Failures ELSE {Thrown("fetch failed")}

\* a stream fragment: what chunk.text is (a method, a string, something
\* else), the value it returns or holds, whether candidates[0].content.parts[0]
\* exists, and the text that part holds
Shape(k, t, p, n) == [kind |-> k, text |-> t, path |-> p, nested |-> n]
\* a fragment as /chat takes it: text is a method
Fragment(t, n) == Shape("function", t, TRUE, n)
Fragments == {Fragment(Str("x"), Str("x")),
              Fragment(Str("y"), Str("y")),
              Fragment(Undefined, Str("z")),
              Fragment(Undefined, Undefined)}
FragmentsOf(m) == IF m = "stream" THEN Fragments ELSE {Fragment(Str("x"), Str("x"))}
ChunkLimit(m) == IF m = "stream" THEN MaxChunks ELSE RaceChunks
RequestLimit(m) ==
    IF m = "race" THEN MaxRequests ELSE IF m = "pair" THEN PairRequests ELSE StreamRequests
InFlightLimit(m) == IF m = "stream" THEN 1 ELSE MaxInFlight

Turn(r, t) == [role |-> r, text |-> t]

VARIABLES
    mode,             \* which inputs the environment draws from; never changes
    chatHistories,    \* the Map: session key -> array reference, NoRef when absent
    heap,             \* array reference -> sequence of turns
    nextReq,          \* number of the next request to arrive
    body,             \* req.body of each request
    pc,               \* position of each handler
    hist,             \* currentSessionHistory of each handler (a reference)
    modelResponse,    \* modelResponse of each handler
    chunks,           \* fragments each handler has received so far
    call,             \* the startChat/sendMessageStream call each handler made
    resp,             \* the HTTP response each handler emitted
    sets,             \* number of chatHistories.set calls of each handler
    emitted,          \* number of responses each handler has sent
    caught,           \* the value each handler's catch block received, if any
    before,           \* stored history of the session when the request arrived
    after,            \* stored history of the session right after the response
    inflightAtArrival, \* handlers suspended when the request arrived (same session)
    rejected          \* the last request that failed validation, its response, and
                      \* whether the Map held the session it named

vars == <<mode, chatHistories, heap, nextReq, body, pc, hist, modelResponse, chunks,
          call, resp, sets, emitted, caught, before, after, inflightAtArrival, rejected>>

NoCaught == [raised |-> FALSE, value |-> ThrownBare]
NoBody == [sessionId |-> Undefined, userResponse |-> Undefined]
NoCall == [made |-> FALSE, history |-> <<>>, message |-> ""]
NoResp == [status |-> 0, response |-> "", history |-> <<>>, error |-> ""]

\* chatHistories.get(sessionId) || []   seen as a value
Stored(k) == IF chatHistories[k] = NoRef THEN <<>> ELSE heap[chatHistories[k]]

InFlight(r) == pc[r] \in {"awaitSend", "streaming"}
\* variant: every handler commits under one fixed key
Key_Single(r) == "s1"
\* the key a handler passes to chatHistories.set
Key(r) == body[r].sessionId.val

Init ==
    /\ mode \in Modes
    /\ chatHistories = [k \in SessionKeys |-> NoRef]
    /\ heap = [a \in Refs |-> <<>>]
    /\ nextReq = 1
    /\ body = [r \in Requests |-> NoBody]
    /\ pc = [r \in Requests |-> "idle"]
    /\ hist = [r \in Requests |-> NoRef]
    /\ modelResponse = [r \in Requests |-> ""]
    /\ chunks = [r \in Requests |-> <<>>]
    /\ call = [r \in Requests |-> NoCall]
    /\ resp = [r \in Requests |-> NoResp]
    /\ sets = [r \in Requests |-> 0]
    /\ emitted = [r \in Requests |-> 0]
    /\ caught = [r \in Requests |-> NoCaught]
    /\ before = [r \in Requests |-> <<>>]
    /\ after = [r \in Requests |-> <<>>]
    /\ inflightAtArrival = [r \in Requests |-> {}]
    /\ rejected = [body |-> NoBody, resp |-> NoResp, known |-> FALSE]

\* variant: only the session id is validated
InvalidRequest_SessionOnly(sessionId, userResponse) ==
    Falsy(sessionId)
\* line 124
InvalidRequest(sessionId, userResponse) ==
    Falsy(sessionId) \/ userResponse = Undefined

\* lines 143 and 179: the phase test
IsInitial(history, userResponse) ==
    Len(history) = 0 /\ userResponse = Str("")

\* lines 159-162: conversion to the external API's turn format
ToContent(item) == [role |-> item.role, parts |-> <<[text |-> item.text]>>]
\* variant: the history is converted without its last turn
ToApiHistory_DropLast(history) == [i \in 1..(Len(history) - 1) |-> ToContent(history[i])]
ToApiHistory(history) == [i \in 1..Len(history) |-> ToContent(history[i])]

\* variant: the fragment is put in front of the text gathered so far
Accumulate_Prepend(acc, chunk) ==
    IF chunk.text.type = "string" THEN chunk.text.val \o acc ELSE acc
\* lines 169-175: one fragment's contribution
Accumulate(acc, chunk) ==
    IF chunk.text.type = "string" THEN acc \o chunk.text.val ELSE acc

\* variant: the second phase test looks at the utterance only
CommitTurns_UtteranceOnly(history, userResponse, reply) ==
    (IF userResponse = Str("")
        THEN Append(history, Turn("user", SyntheticOpening))
        ELSE history) \o <<Turn("model", reply)>>
\* variant: the commit starts a new transcript instead of pushing
CommitTurns_Rewrite(history, userResponse, reply) ==
    <<Turn("user", userResponse.val), Turn("model", reply)>>
\* variant: the synthetic opening turn is never recorded
CommitTurns_NoSynthetic(history, userResponse, reply) ==
    history \o <<Turn("model", reply)>>
\* lines 179-183: turns pushed after the stream is exhausted
CommitTurns(history, userResponse, reply) ==
    (IF IsInitial(history, userResponse)
        THEN Append(history, Turn("user", SyntheticOpening))
        ELSE history) \o <<Turn("model", reply)>>

\* variant: the response carries the history as it was before the reply was pushed
SuccessBody_BeforeReply(reply, history) ==
    [status |-> 200, response |-> reply,
     history |-> SubSeq(history, 1, Len(history) - 1), error |-> ""]
\* line 188
SuccessBody(reply, history) ==
    [status |-> 200, response |-> reply, history |-> history, error |-> ""]

\* lines 193-197
ErrorMessage(error) ==
    IF Includes(error.message, RoleOrderPhrase) THEN ResetMessage ELSE GenericRetryMessage

----
\* lines 120-126: a request that fails validation; the handler returns at once
Reject(sessionId, userResponse) ==
    /\ InvalidRequest(sessionId, userResponse)
    /\ rejected' = [body |-> [sessionId |-> sessionId, userResponse |-> userResponse],
                    resp |-> [status |-> 400, response |-> "", history |-> <<>>,
                              error |-> ValidationMessage],
                    known |-> /\ sessionId.val \in SessionKeys
                              /\ chatHistories[sessionId.val] # NoRef]
    /\ UNCHANGED <<mode, caught, chatHistories, heap, nextReq, body, pc, hist, modelResponse, chunks,
                   call, resp, sets, emitted, before, after, inflightAtArrival>>

\* lines 120-164: a valid request, up to the await of sendMessageStream
Accept(r, sessionId, userResponse) ==
    /\ pc[r] = "idle" /\ r = nextReq /\ r <= RequestLimit(mode)
    /\ Cardinality({q \in Requests : InFlight(q)}) < InFlightLimit(mode)
    /\ ~InvalidRequest(sessionId, userResponse)
    /\ LET k == sessionId.val
           ref == IF chatHistories[k] = NoRef THEN r ELSE chatHistories[k]
           cur == IF chatHistories[k] = NoRef THEN <<>> ELSE heap[ref]
       IN /\ hist' = [hist EXCEPT ![r] = ref]
          /\ before' = [before EXCEPT ![r] = Stored(k)]
          /\ inflightAtArrival' = [inflightAtArrival EXCEPT ![r] =
                 {q \in Requests : InFlight(q) /\ Key(q) = k}]
          /\ IF IsInitial(cur, userResponse)
                THEN /\ heap' = [heap EXCEPT ![ref] = cur]
                     /\ call' = [call EXCEPT ![r] =
                            [made |-> TRUE, history |-> <<>>, message |-> SyntheticOpening]]
                ELSE LET pushed == Append(cur, Turn("user", userResponse.val))
                     IN /\ heap' = [heap EXCEPT ![ref] = pushed]
                        /\ call' = [call EXCEPT ![r] =
                               [made |-> TRUE, history |-> ToApiHistory(pushed),
                                message |-> userResponse.val]]
    /\ nextReq' = nextReq + 1
    /\ body' = [body EXCEPT ![r] = [sessionId |-> sessionId, userResponse |-> userResponse]]
    /\ pc' = [pc EXCEPT ![r] = "awaitSend"]
    /\ UNCHANGED <<mode, caught, chatHistories, modelResponse, chunks, resp, sets, emitted, after,
                   rejected>>

\* line 147 / 164: the awaited sendMessageStream resolves
SendResolves(r) ==
    /\ pc[r] = "awaitSend"
    /\ pc' = [pc EXCEPT ![r] = "streaming"]
    /\ UNCHANGED <<mode, caught, chatHistories, heap, nextReq, body, hist, modelResponse, chunks,
                   call, resp, sets, emitted, before, after, inflightAtArrival, rejected>>

\* lines 190-198: the catch block
Catch(r, error) ==
    /\ IF error.hasMessage
          THEN /\ resp' = [resp EXCEPT ![r] = [status |-> 500, response |-> "",
                               history |-> <<>>, error |-> ErrorMessage(error)]]
               /\ emitted' = [emitted EXCEPT ![r] = @ + 1]
               /\ pc' = [pc EXCEPT ![r] = "done"]
          ELSE \* error.message is undefined: .includes throws inside the catch
               /\ resp' = resp
               /\ emitted' = emitted
               /\ pc' = [pc EXCEPT ![r] = "crashed"]
    /\ caught' = [caught EXCEPT ![r] = [raised |-> TRUE, value |-> error]]
    /\ after' = [after EXCEPT ![r] = Stored(Key(r))]
    \* the handler has returned: its locals are gone
    /\ modelResponse' = [modelResponse EXCEPT ![r] = ""]
    /\ chunks' = [chunks EXCEPT ![r] = <<>>]
    /\ UNCHANGED <<mode, chatHistories, heap, nextReq, body, hist,
                   call, sets, before, inflightAtArrival, rejected>>

\* line 147 / 164: the awaited sendMessageStream rejects
SendRejects(r, error) ==
    /\ pc[r] = "awaitSend"
    /\ Catch(r, error)

\* lines 168-175: one fragment arrives
Chunk(r, chunk) ==
    /\ pc[r] = "streaming"
    /\ Len(chunks[r]) < ChunkLimit(mode)
    /\ chunks' = [chunks EXCEPT ![r] = Append(@, chunk)]
    /\ modelResponse' = [modelResponse EXCEPT ![r] = Accumulate(@, chunk)]
    /\ UNCHANGED <<mode, caught, chatHistories, heap, nextReq, body, pc, hist, call, resp, sets,
                   emitted, before, after, inflightAtArrival, rejected>>

\* line 168: the stream raises instead of yielding a fragment
StreamFails(r, error) ==
    /\ pc[r] = "streaming"
    /\ Catch(r, error)

\* lines 177-188: the stream is exhausted; commit and respond
StreamEnds(r) ==
    /\ pc[r] = "streaming"
    /\ LET ref == hist[r]
           final == CommitTurns(heap[ref], body[r].userResponse, modelResponse[r])
           heap2 == [heap EXCEPT ![ref] = final]
       IN /\ heap' = heap2
          /\ chatHistories' = [chatHistories EXCEPT ![Key(r)] = ref]
          /\ resp' = [resp EXCEPT ![r] = SuccessBody(modelResponse[r], heap2[ref])]
          /\ after' = [after EXCEPT ![r] = heap'[chatHistories'[Key(r)]]]
    /\ sets' = [sets EXCEPT ![r] = @ + 1]
    /\ emitted' = [emitted EXCEPT ![r] = @ + 1]
    /\ pc' = [pc EXCEPT ![r] = "done"]
    /\ UNCHANGED <<mode, caught, nextReq, body, hist, modelResponse, chunks, call, before,
                   inflightAtArrival, rejected>>

Next ==
    \/ \E s \in SessionIdInputs(mode), u \in UserResponseInputs(mode) : Reject(s, u)
    \/ \E r \in Requests, s \in SessionIdInputs(mode), u \in UserResponseInputs(mode) : Accept(r, s, u)
    \/ \E r \in Requests : SendResolves(r)
    \/ \E r \in Requests, e \in FailuresOf(mode) : SendRejects(r, e)
    \/ \E r \in Requests, c \in FragmentsOf(mode) : Chunk(r, c)
    \/ \E r \in Requests, e \in FailuresOf(mode) : StreamFails(r, e)
    \/ \E r \in Requests : StreamEnds(r)

Spec == Init /\ [][Next]_vars

----
\* ---- the /interview endpoint (lines 232-308), a server of its own --------
InterviewFragments == {Shape("function", Str("x"), TRUE, Str("x")),
                       Shape("string", Str("y"), TRUE, Str("y")),
                       Shape("other", Undefined, TRUE, Str("z")),
                       Shape("other", Undefined, TRUE, Undefined),
                       Shape("other", Undefined, FALSE, Undefined)}
InterviewBodies == {[sessionId |-> Str("s1"), jobTitle |-> Str("dev"), userResponse |-> Str("")],
                    [sessionId |-> Str("s1"), jobTitle |-> Str("dev"), userResponse |-> Str("hi")],
                    [sessionId |-> Str("s1"), jobTitle |-> Str("dev"),
                     userResponse |-> Str("start interview")],
                    [sessionId |-> Str("s1"), jobTitle |-> Undefined, userResponse |-> Str("hi")]}
StartInterview == "start interview"
InterviewValidationMessage == "Missing sessionId, jobTitle, or userResponse"
InterviewFailureMessage == "Failed to get response from AI interviewer."

InitInterview ==
    /\ mode = "interview"
    /\ chatHistories = [k \in SessionKeys |-> NoRef]
    /\ heap = [a \in Refs |-> <<>>]
    /\ nextReq = 1
    /\ body = [r \in Requests |-> NoBody]
    /\ pc = [r \in Requests |-> "idle"]
    /\ hist = [r \in Requests |-> NoRef]
    /\ modelResponse = [r \in Requests |-> ""]
    /\ chunks = [r \in Requests |-> <<>>]
    /\ call = [r \in Requests |-> NoCall]
    /\ resp = [r \in Requests |-> NoResp]
    /\ sets = [r \in Requests |-> 0]
    /\ emitted = [r \in Requests |-> 0]
    /\ caught = [r \in Requests |-> NoCaught]
    /\ before = [r \in Requests |-> <<>>]
    /\ after = [r \in Requests |-> <<>>]
    /\ inflightAtArrival = [r \in Requests |-> {}]
    /\ rejected = [body |-> NoBody, resp |-> NoResp, known |-> FALSE]

\* line 235
InterviewInvalid(b) ==
    Falsy(b.sessionId) \/ Falsy(b.jobTitle) \/ b.userResponse = Undefined

\* `fullResponse += v`: string conversion of the operand
ToText(v) == IF v.type = "string" THEN v.val ELSE "undefined"

\* variant: the nested part is read without testing that the path exists
InterviewAccumulate_NoGuard(acc, chunk) ==
    IF chunk.kind \in {"function", "string"} THEN acc \o ToText(chunk.text)
    ELSE acc \o ToText(chunk.nested)
\* lines 279-292: one fragment's contribution
InterviewAccumulate(acc, chunk) ==
    IF chunk.kind = "function" THEN acc \o ToText(chunk.text)
    ELSE IF chunk.kind = "string" THEN acc \o chunk.text.val
    ELSE IF chunk.path THEN acc \o ToText(chunk.nested)
    ELSE acc

\* lines 269-273: the message sent
InterviewMessage(history, userResponse) ==
    IF Len(history) = 0 /\ Falsy(userResponse) THEN StartInterview ELSE userResponse.val

\* lines 296-299: turns pushed after the stream is exhausted
InterviewTurns(history, userResponse, reply) ==
    (IF userResponse # Undefined /\ userResponse # Str(StartInterview)
        THEN Append(history, Turn("user", userResponse.val))
        ELSE history) \o <<Turn("model", reply)>>

\* lines 232-237: a request that fails validation
InterviewReject(b) ==
    /\ InterviewInvalid(b)
    /\ rejected' = [body |-> b,
                    resp |-> [status |-> 400, response |-> "", history |-> <<>>,
                              error |-> InterviewValidationMessage],
                    known |-> /\ b.sessionId.val \in SessionKeys
                              /\ chatHistories[b.sessionId.val] # NoRef]
    /\ UNCHANGED <<mode, caught, chatHistories, heap, nextReq, body, pc, hist, modelResponse,
                   chunks, call, resp, sets, emitted, before, after, inflightAtArrival>>

\* lines 232-273: a valid request, up to the await of sendMessageStream
InterviewAccept(r, b) ==
    /\ pc[r] = "idle" /\ r = nextReq /\ r <= StreamRequests
    /\ \A q \in Requests : ~InFlight(q)
    /\ ~InterviewInvalid(b)
    /\ LET k == b.sessionId.val
           ref == IF chatHistories[k] = NoRef THEN r ELSE chatHistories[k]
           cur == IF chatHistories[k] = NoRef THEN <<>> ELSE heap[ref]
       IN /\ hist' = [hist EXCEPT ![r] = ref]
          /\ heap' = [heap EXCEPT ![ref] = cur]
          /\ before' = [before EXCEPT ![r] = Stored(k)]
          /\ call' = [call EXCEPT ![r] =
                 [made |-> TRUE, history |-> ToApiHistory(cur),
                  message |-> InterviewMessage(cur, b.userResponse)]]
    /\ inflightAtArrival' = [inflightAtArrival EXCEPT ![r] = {}]
    /\ nextReq' = nextReq + 1
    /\ body' = [body EXCEPT ![r] = b]
    /\ pc' = [pc EXCEPT ![r] = "awaitSend"]
    /\ UNCHANGED <<mode, caught, chatHistories, modelResponse, chunks, resp, sets, emitted,
                   after, rejected>>

\* lines 270 / 272: the awaited sendMessageStream resolves
InterviewSendResolves(r) ==
    /\ pc[r] = "awaitSend"
    /\ pc' = [pc EXCEPT ![r] = "streaming"]
    /\ UNCHANGED <<mode, caught, chatHistories, heap, nextReq, body, hist, modelResponse,
                   chunks, call, resp, sets, emitted, before, after, inflightAtArrival,
                   rejected>>

\* lines 276-293: one fragment arrives
InterviewChunk(r, chunk) ==
    /\ pc[r] = "streaming"
    /\ Len(chunks[r]) < MaxChunks
    /\ chunks' = [chunks EXCEPT ![r] = Append(@, chunk)]
    /\ modelResponse' = [modelResponse EXCEPT ![r] = InterviewAccumulate(@, chunk)]
    /\ UNCHANGED <<mode, caught, chatHistories, heap, nextReq, body, pc, hist, call, resp,
                   sets, emitted, before, after, inflightAtArrival, rejected>>

\* lines 304-307: sendMessageStream rejects or the stream raises
InterviewCatch(r, error) ==
    /\ InFlight(r)
    /\ resp' = [resp EXCEPT ![r] = [status |-> 500, response |-> "", history |-> <<>>,
                                     error |-> InterviewFailureMessage]]
    /\ emitted' = [emitted EXCEPT ![r] = @ + 1]
    /\ pc' = [pc EXCEPT ![r] = "done"]
    /\ caught' = [caught EXCEPT ![r] = [raised |-> TRUE, value |-> error]]
    /\ after' = [after EXCEPT ![r] = Stored(Key(r))]
    /\ modelResponse' = [modelResponse EXCEPT ![r] = ""]
    /\ chunks' = [chunks EXCEPT ![r] = <<>>]
    /\ UNCHANGED <<mode, chatHistories, heap, nextReq, body, hist, call, sets, before,
                   inflightAtArrival, rejected>>

\* lines 295-302: the stream is exhausted; update the history and respond
InterviewEnds(r) ==
    /\ pc[r] = "streaming"
    /\ LET ref == hist[r]
           final == InterviewTurns(heap[ref], body[r].userResponse, modelResponse[r])
       IN /\ heap' = [heap EXCEPT ![ref] = final]
          /\ chatHistories' = [chatHistories EXCEPT ![Key(r)] = ref]
          /\ resp' = [resp EXCEPT ![r] = SuccessBody(modelResponse[r], final)]
          /\ after' = [after EXCEPT ![r] = heap'[chatHistories'[Key(r)]]]
    /\ sets' = [sets EXCEPT ![r] = @ + 1]
    /\ emitted' = [emitted EXCEPT ![r] = @ + 1]
    /\ pc' = [pc EXCEPT ![r] = "done"]
    /\ UNCHANGED <<mode, caught, nextReq, body, hist, modelResponse, chunks, call, before,
                   inflightAtArrival, rejected>>

NextInterview ==
    \/ \E b \in InterviewBodies : InterviewReject(b)
    \/ \E r \in Requests, b \in InterviewBodies : InterviewAccept(r, b)
    \/ \E r \in Requests : InterviewSendResolves(r)
    \/ \E r \in Requests, c \in InterviewFragments : InterviewChunk(r, c)
    \/ \E r \in Requests, e \in {Thrown("fetch failed")} : InterviewCatch(r, e)
    \/ \E r \in Requests : InterviewEnds(r)

SpecInterview == InitInterview /\ [][NextInterview]_vars

----
\* ---- vocabulary of the properties ---------------------------------------
Succeeded(r) == resp[r].status = 200
Failed(r) == resp[r].status = 500
UserText(r) == body[r].userResponse.val
\* r shared no part of its lifetime with another handler of its session
Alone(r) ==
    /\ inflightAtArrival[r] = {}
    /\ \A q \in Requests : r \notin inflightAtArrival[q]
Quiet(k) == \A r \in Requests : Key(r) = k => ~InFlight(r) /\ Alone(r)
Successes(k) == Cardinality({r \in Requests : Key(r) = k /\ Succeeded(r)})
\* roles alternate, starting with user (any record with a role field)
Alternates(h) ==
    /\ Len(h) > 0 => h[1].role = "user"
    /\ \A i \in 1..(Len(h) - 1) : h[i].role # h[i + 1].role

\* C1: a validated request whose external call or stream fails, and that
\* ran alone on its session, leaves the stored history of the session
\* exactly as it was when the request arrived.
C1_FailureLeavesHistory ==
    \A r \in Requests : Failed(r) /\ Alone(r) => after[r] = before[r]

\* C2: when the requests of a session are handled one after another and
\* none is in flight, the stored history has twice as many entries as there
\* were successful requests, alternating user, model, ... from user.
C2_TwoTurnsPerSuccess ==
    \A k \in SessionKeys :
        Quiet(k) => Len(Stored(k)) = 2 * Successes(k) /\ Alternates(Stored(k))

\* C3: the prior-turn history of every startChat call is empty or starts
\* with a user turn and strictly alternates roles.
C3_CallHistoryAlternates ==
    \A r \in Requests : call[r].made => Alternates(call[r].history)

\* C4: a request with empty userResponse for a session without stored
\* history calls the model with no prior history and the synthetic opening
\* as message; on success the session holds exactly the synthetic user turn
\* followed by the model turn with the reply.
C4_InitialPhase ==
    \A r \in Requests :
        call[r].made /\ before[r] = <<>> /\ body[r].userResponse = Str("") =>
            /\ call[r].history = <<>>
            /\ call[r].message = SyntheticOpening
            /\ Succeeded(r) =>
                   after[r] = <<Turn("user", SyntheticOpening),
                                Turn("model", resp[r].response)>>
C4_Witness ==
    \E r \in Requests :
        /\ before[r] = <<>> /\ body[r].userResponse = Str("")
        /\ Succeeded(r) /\ resp[r].response # ""
        /\ Stored(Key(r)) = after[r]

\* C5: with stored turns and a non-empty userResponse, the history passed
\* to startChat is the stored history followed by one user turn carrying
\* userResponse, each turn keeping its role and text, in the same order.
C5_OngoingCallHistory ==
    \A r \in Requests :
        call[r].made /\ before[r] # <<>> /\ UserText(r) # "" =>
            LET h == call[r].history
                n == Len(before[r])
            IN /\ Len(h) = n + 1
               /\ \A i \in 1..n :
                      /\ h[i].role = before[r][i].role
                      /\ h[i].parts = <<[text |-> before[r][i].text]>>
               /\ h[n + 1].role = "user"
               /\ h[n + 1].parts = <<[text |-> UserText(r)]>>
C5_Witness ==
    \E r \in Requests :
        /\ call[r].made /\ Len(before[r]) >= 2 /\ UserText(r) # ""
        /\ before[r][1].role # before[r][2].role

\* C6: a successful request outside the initial phase turns the stored
\* history H found at its arrival into H followed by exactly its user turn
\* and the model turn with its reply.
C6_OngoingCommit ==
    \A r \in Requests :
        Succeeded(r) /\ ~IsInitial(before[r], body[r].userResponse) =>
            after[r] = before[r] \o <<Turn("user", UserText(r)),
                                      Turn("model", resp[r].response)>>

\* C7: a request without sessionId or with undefined userResponse is
\* answered 400 with an error text, calls the model for nobody, and leaves
\* the Map and every array as they were; only such requests are rejected.
MissingField(b) == b.sessionId.type = "undefined" \/ b.userResponse.type = "undefined"
C7_RejectStep ==
    /\ rejected' # rejected =>
           /\ MissingField(rejected'.body)
           /\ rejected'.resp.status = 400 /\ rejected'.resp.error # ""
           /\ call' = call /\ chatHistories' = chatHistories /\ heap' = heap
    /\ \A r \in Requests : call'[r] # call[r] => ~MissingField(body'[r])
C7_ValidationRejects == [][C7_RejectStep]_vars
C7_Witness ==
    /\ rejected.resp.status = 400
    /\ rejected.body.sessionId = Str("s1") /\ rejected.body.userResponse = Undefined
    /\ rejected.known /\ Len(Stored("s1")) >= 2

\* C8: the response text of a successful request, and the text of the model
\* turn it committed, are the texts of all fragments of the stream joined in
\* arrival order with nothing in between.
ChunkText(c) == IF c.text.type = "string" THEN c.text.val ELSE ""
RECURSIVE Concat(_)
Concat(cs) == IF cs = <<>> THEN "" ELSE ChunkText(Head(cs)) \o Concat(Tail(cs))
C8_ResponseIsConcatenation ==
    \A r \in Requests :
        Succeeded(r) =>
            /\ resp[r].response = Concat(chunks[r])
            /\ after[r][Len(after[r])] = Turn("model", Concat(chunks[r]))
C8_Witness ==
    \E r \in Requests :
        /\ Succeeded(r) /\ Len(chunks[r]) = 2
        /\ chunks[r][1].text = Str("x") /\ chunks[r][2].text = Str("y")

\* C9: a successful request calls chatHistories.set once and responds once,
\* and the history in its 200 response is the history the Map holds for the
\* session right after the set, other handlers of the session in flight or not.
C9_OneCommitOneResponse ==
    \A r \in Requests :
        /\ sets[r] <= 1 /\ emitted[r] <= 1
        /\ Succeeded(r) =>
               /\ sets[r] = 1 /\ emitted[r] = 1
               /\ resp[r].history = after[r]
C9_Witness ==
    \E r, q \in Requests :
        /\ r # q /\ Succeeded(r) /\ InFlight(q)
        /\ hist[q] = hist[r] /\ r \in inflightAtArrival[q]

\* C10: when two requests of one session overlap (the second arrives while
\* the first is suspended, no third request interferes) and both succeed,
\* the session ends up holding the prior history followed by only the user
\* turn and reply of the request that committed last.
RecordedUser(r) ==
    IF IsInitial(before[r], body[r].userResponse) THEN SyntheticOpening ELSE UserText(r)
C10_LastWriteWins ==
    \A a, b \in Requests :
        ( /\ a # b /\ Succeeded(a) /\ Succeeded(b) /\ Key(a) = Key(b)
          /\ inflightAtArrival[a] = {} /\ inflightAtArrival[b] = {a}
          /\ \A c \in Requests \ {a, b} : pc[c] # "idle" /\ Key(c) = Key(a) => c < a )
        => \E last \in {a, b} :
               /\ Stored(Key(a)) = after[last]
               /\ Stored(Key(a)) = before[a] \o <<Turn("user", RecordedUser(last)),
                                                  Turn("model", resp[last].response)>>

\* C11: requests of different sessions do not touch each other: whatever
\* changes for a session (its Map entry, its stored history, an array one of
\* its handlers holds) changes in a step of a request carrying that session
\* id, and no array is ever held by handlers of two sessions.
SessionOf(r) == body[r].sessionId
Acts(r) == pc'[r] # pc[r]
C11_Step ==
    /\ \A k \in SessionKeys :
           chatHistories'[k] # chatHistories[k] \/ Stored(k)' # Stored(k) =>
               \E r \in Requests : Acts(r) /\ SessionOf(r)' = Str(k)
    /\ \A a \in Refs :
           heap'[a] # heap[a] => \E r \in Requests : Acts(r) /\ hist'[r] = a
    /\ \A r, q \in Requests :
           pc[r] # "idle" /\ pc[q] # "idle" /\ hist[r] = hist[q] =>
               SessionOf(r) = SessionOf(q)
    /\ \A r \in Requests, k \in SessionKeys :
           pc[r] # "idle" /\ hist[r] = chatHistories[k] => SessionOf(r) = Str(k)
C11_SessionsIndependent == [][C11_Step]_vars
C11_Witness ==
    \E r, q \in Requests :
        /\ q < r /\ SessionOf(q) # SessionOf(r)
        /\ InFlight(q) /\ Len(heap[hist[q]]) > 0
        /\ Succeeded(r) /\ Stored(SessionOf(r).val) = after[r]
        /\ Stored(SessionOf(q).val) = <<>>

\* C12: when a request fails at the external call and the same request is
\* sent again right after and succeeds, the stored history and the history
\* of the 200 response are what a success of the first attempt with that
\* reply would have produced.
SuccessHistory(h, userResponse, reply) ==
    IF IsInitial(h, userResponse)
        THEN <<Turn("user", SyntheticOpening), Turn("model", reply)>>
        ELSE h \o <<Turn("user", userResponse.val), Turn("model", reply)>>
C12_RetryLeavesNoTrace ==
    \A a, b \in Requests :
        ( /\ b = a + 1 /\ pc[a] # "idle" /\ body[a] = body[b]
          /\ Failed(a) /\ Alone(a) /\ Succeeded(b) /\ Alone(b) )
        => LET expected == SuccessHistory(before[a], body[a].userResponse, resp[b].response)
           IN after[b] = expected /\ resp[b].history = expected

\* C13: every failure raised by the external call or the stream is answered
\* with status 500: with the reset message when the failure reports the
\* role-ordering violation, with the generic retry message otherwise.
ReportsRoleOrder(e) == e.hasMessage /\ Includes(e.message, RoleOrderPhrase)
C13_FailureAnswered500 ==
    \A r \in Requests :
        caught[r].raised =>
            /\ resp[r].status = 500
            /\ resp[r].error = IF ReportsRoleOrder(caught[r].value)
                                  THEN ResetMessage ELSE GenericRetryMessage

\* C14: a fragment whose text() gives no string but whose nested
\* candidates[0].content.parts[0].text holds one contributes that nested
\* text to the reply.
NestedText(c) ==
    IF c.text.type = "string" THEN c.text.val
    ELSE IF c.nested.type = "string" THEN c.nested.val ELSE ""
RECURSIVE ConcatNested(_)
ConcatNested(cs) ==
    IF cs = <<>> THEN "" ELSE NestedText(Head(cs)) \o ConcatNested(Tail(cs))
C14_NestedFallback ==
    \A r \in Requests : Succeeded(r) => resp[r].response = ConcatNested(chunks[r])

\* C15: a fragment whose text no known shape yields (neither the text
\* field nor candidates[0].content.parts[0].text holds a string) adds the
\* empty string to the reply and aborts nothing: the reply is the
\* concatenation of what the other fragments yield, and a stream that ends
\* without raising ends in a 200 response and one commit.
Unextractable(c) == c.text.type # "string" /\ ~(c.path /\ c.nested.type = "string")
Extracted(c) ==
    IF c.text.type = "string" THEN c.text.val
    ELSE IF c.path /\ c.nested.type = "string" THEN c.nested.val ELSE ""
RECURSIVE ConcatExtracted(_)
ConcatExtracted(cs) ==
    IF cs = <<>> THEN "" ELSE Extracted(Head(cs)) \o ConcatExtracted(Tail(cs))
C15_UnextractableIsEmpty ==
    \A r \in Requests :
        /\ pc[r] = "streaming" => modelResponse[r] = ConcatExtracted(chunks[r])
        /\ pc[r] = "done" /\ ~caught[r].raised =>
              /\ Succeeded(r) /\ sets[r] = 1
              /\ resp[r].response = ConcatExtracted(chunks[r])

\* C16: every session present in the Map holds a non-empty history whose
\* first turn is a user turn.
C16_StoredStartsWithUser ==
    \A k \in SessionKeys :
        chatHistories[k] # NoRef => Len(Stored(k)) > 0 /\ Stored(k)[1].role = "user"
C16_Witness ==
    \E a, b, c \in Requests :
        /\ Failed(a) /\ Key(a) = "s1" /\ Len(before[a]) > 0
        /\ Succeeded(b) /\ Succeeded(c) /\ b \in inflightAtArrival[c]
        /\ body[b].userResponse = Str("") /\ before[b] = <<>>
        /\ chatHistories["s1"] # NoRef

\* C17: no two adjacent turns of a stored history have the same role.
NoAdjacentSame(h) == \A i \in 1..(Len(h) - 1) : h[i].role # h[i + 1].role
C17_StoredAlternates ==
    \A k \in SessionKeys : NoAdjacentSame(Stored(k))

\* C18 as stated: across every step a session in the Map stays in it and
\* its stored history before the step is a prefix of the one after it.
IsPrefix(g, h) == Len(g) <= Len(h) /\ SubSeq(h, 1, Len(g)) = g
C18_OriginalStep ==
    \A k \in SessionKeys :
        chatHistories[k] # NoRef =>
            chatHistories'[k] # NoRef /\ IsPrefix(Stored(k), Stored(k)')
C18_AppendOnly == [][C18_OriginalStep]_vars
\* C18 as amended: a session in the Map stays in it; every array only
\* grows at its end, so the stored history is a prefix of its successor
\* across every step that leaves the session's Map entry on the same array;
\* only a set that installs another array replaces the stored history.
C18_AmendedStep ==
    /\ \A k \in SessionKeys :
           chatHistories[k] # NoRef =>
               /\ chatHistories'[k] # NoRef
               /\ chatHistories'[k] = chatHistories[k] => IsPrefix(Stored(k), Stored(k)')
    /\ \A a \in Refs : IsPrefix(heap[a], heap'[a])
C18_ArraysOnlyGrow == [][C18_AmendedStep]_vars
C18_Witness ==
    \E r, q \in Requests :
        /\ r # q /\ Succeeded(r) /\ Succeeded(q) /\ r \in inflightAtArrival[q]
        /\ Len(before[r]) >= 2 /\ hist[r] = hist[q]
        /\ IsPrefix(before[r], Stored(Key(r))) /\ Len(Stored(Key(r))) = Len(before[r]) + 4

\* C19: what the model receives on a call, the prior history followed by
\* the message as a user turn, never has two adjacent turns of one role: the
\* prior history does not already end with the user turn sent as message.
Conversation(c) == c.history \o <<[role |-> "user", parts |-> <<[text |-> c.message]>>]>>
C19_UtteranceSentOnce ==
    \A r \in Requests : call[r].made => NoAdjacentSame(Conversation(call[r]))

\* C20: the synthetic opening turn is recorded by the commit of a request
\* exactly when that request called the model in the initial phase (empty
\* prior history, synthetic message).
Commits(r) == pc[r] = "streaming" /\ pc'[r] = "done" /\ resp'[r].status = 200
InitialCall(r) == call[r].history = <<>> /\ call[r].message = SyntheticOpening
RecordsSynthetic(r) ==
    LET old == heap[hist[r]]
        new == heap'[hist[r]]
    IN /\ Len(new) = Len(old) + 2
       /\ new[Len(old) + 1] = Turn("user", SyntheticOpening)
C20_Step ==
    \A r \in Requests :
        Commits(r) =>
            /\ RecordsSynthetic(r) <=> InitialCall(r)
            /\ ~InitialCall(r) => Len(heap'[hist[r]]) = Len(heap[hist[r]]) + 1
C20_PhaseTestsAgree == [][C20_Step]_vars
C20_Witness ==
    \E r, q \in Requests :
        /\ r # q /\ Key(r) = Key(q) /\ Succeeded(r) /\ Succeeded(q)
        /\ InitialCall(r) /\ r \in inflightAtArrival[q]
        /\ body[q].userResponse = Str("") /\ ~InitialCall(q)

\* C21: every /chat request whose call to the model has terminated, by the
\* stream completing or by any failure value being raised, has been answered
\* with exactly one response, of status 200, 400 or 500; no handler has ended
\* without a response and none has answered twice.
Terminated(r) == pc[r] \notin {"idle", "awaitSend", "streaming"}
C21_AnsweredExactlyOnce ==
    /\ \A r \in Requests :
          /\ emitted[r] <= 1
          /\ Terminated(r) => emitted[r] = 1 /\ resp[r].status \in {200, 500}
    /\ rejected.resp.status \in {0, 400}

\* C22: on /interview every successful request, whatever accepted
\* userResponse it carries, leaves the session's stored history equal to the
\* one it found followed by one user turn and one model turn; so a stored
\* /interview history starts with a user turn and alternates roles.
AppendsUserThenModel(old, new) ==
    /\ Len(new) = Len(old) + 2
    /\ SubSeq(new, 1, Len(old)) = old
    /\ new[Len(old) + 1].role = "user"
    /\ new[Len(old) + 2].role = "model"
C22_InterviewTurnPairs ==
    /\ \A r \in Requests : Succeeded(r) => AppendsUserThenModel(before[r], after[r])
    /\ \A k \in SessionKeys :
          chatHistories[k] # NoRef =>
              /\ Len(Stored(k)) > 0 /\ Stored(k)[1].role = "user"
              /\ NoAdjacentSame(Stored(k))

====
